---- MODULE Spec2Model ----
(***************************************************************************)
(* KSeF monitor: the sync cycle of KsefSyncService.runSync, driven by the  *)
(* GET handler of app/api/check-invoices, over the KSeF 2.0 protocol       *)
(* client KsefSession, the Supabase tables ksef_state and ksef_invoices,   *)
(* and the remote KSeF server.                                             *)
(*                                                                         *)
(* Time is counted in hours.  Strings that the code inspects (error        *)
(* messages) are sequences of chunks; String.includes is a contiguous      *)
(* subsequence search over them.                                           *)
(***************************************************************************)
EXTENDS Integers, Sequences, FiniteSets, TLC

\* ------------------------------------------------------------------ bounds
MaxClock == 1          \* the wall clock runs 0..MaxClock
MaxCycles == 2         \* number of GET invocations
MaxArrivals == 1       \* number of batches of invoices the server receives
ModulusBytes == 16     \* length of the server's RSA modulus in bytes (2048-bit keys
                       \* have 256): small, so that texts reach the key's capacity

\* ------------------------------------------------------- program constants
PageSize == 100        \* '/invoices/query/metadata?pageSize=100&pageOffset=0'
PageOffset == 0
DayHours == 24         \* d.setDate(d.getDate() - 1), in hours
Pkcs1Overhead == 11    \* RSA_PKCS1_PADDING: 00 02, at least 8 padding bytes, 00

Procs == {1, 2}        \* concurrent invocations of the GET handler
SerialProcs == {1}     \* the single scheduled job

Absent == [absent |-> TRUE]        \* undefined

\* ------------------------------------------------------------------ state
VARIABLES
    clock,          \* the wall clock (new Date()), in hours
    env,            \* process.env
    ksef_state,     \* Supabase table ksef_state (the watermark record)
    ksef_invoices,  \* Supabase table ksef_invoices
    serverInvoices, \* the headers the KSeF server holds, in its order
    serverAuth,     \* the server's count of challenges issued, the ones used, its count of sessions
    arrivals,       \* batches received by the server so far
    cycles,         \* GET invocations so far
    pc,             \* per invocation: the await it is suspended at, or "idle"
    lastSyncDate,   \* runSync's local lastSyncDate
    now,            \* runSync's local now
    sessionToken,   \* runSync's local sessionToken
    invoices,       \* runSync's local invoices
    requests,       \* per invocation: the requests sent so far in this cycle
    response,       \* per invocation: the answer of GET, once it returned
    trace,          \* per invocation: what happened in this cycle
    prev,           \* the cycle that finished last, kept until the next one has read
                    \* the watermark and gone on to its login request
    firstFrom,      \* the lower bound of the first cycle
    challengesSent, \* the numbers of the challenges sent in login requests, all cycles
    connectivity,   \* the last call of checkConnectivity: its answer and what it returned
    encryption      \* the last call of encryptToken on its own: its arguments and result

vars == <<clock, env, ksef_state, ksef_invoices, serverInvoices, serverAuth,
          arrivals, cycles, pc, lastSyncDate, now, sessionToken, invoices,
          requests, response, trace, prev, firstFrom, challengesSent,
          connectivity, encryption>>

\* ---------------------------------------------------------------- strings
RECURSIVE IncludesAt(_, _, _)
IncludesAt(s, needle, i) ==
    IF i + Len(needle) - 1 > Len(s) THEN FALSE
    ELSE IF SubSeq(s, i, i + Len(needle) - 1) = needle THEN TRUE
    ELSE IncludesAt(s, needle, i + 1)

\* String.prototype.includes
Includes(s, needle) == IncludesAt(s, needle, 1)

\* Date.prototype.toISOString and new Date(isoString): the ISO text keeps the
\* instant to the millisecond, so parsing gives the instant back.
toISOString(d) == [iso |-> d]
ParseDate(s) == s.iso

\* JSON.stringify of an error envelope of the server
JSONstringify(data) ==
    <<"{exceptionCode:", data.exceptionCode, ",description:">> \o data.description \o <<"}">>

\* ------------------------------------------------- configuration (env)
\* process.env as read by runSync.  "" is an unset variable.  TZ is the time
\* zone of the process: the configurations below run in UTC.  The base URL the
\* session is built with does not enter the model: every request is answered
\* by the server or fails in transport.
KSEF_KEYS == [PROD |-> "PEM-PLACEHOLDER-PROD", TEST |-> "PEM-PLACEHOLDER-TEST"]

ServerNip == "NIP"
ServerSecret == "SECRET"
ServerPem == "PEM-SERVER"          \* the public half of the server's key pair

\* The keys of KsefKeys.ts are truncated placeholders: no PEM parser accepts them.
WellFormedPem(pem) == pem \in {ServerPem, "PEM-OTHER"}

Envs ==
    { [KSEF_NIP |-> ServerNip, KSEF_TOKEN |-> ServerSecret, KSEF_ENV |-> "TEST", KSEF_PUBLIC_KEY |-> ServerPem, TZ |-> "UTC"],
      [KSEF_NIP |-> ServerNip, KSEF_TOKEN |-> "WRONG",      KSEF_ENV |-> "TEST", KSEF_PUBLIC_KEY |-> ServerPem, TZ |-> "UTC"],
      [KSEF_NIP |-> "",        KSEF_TOKEN |-> ServerSecret, KSEF_ENV |-> "TEST", KSEF_PUBLIC_KEY |-> ServerPem, TZ |-> "UTC"],
      [KSEF_NIP |-> ServerNip, KSEF_TOKEN |-> "",           KSEF_ENV |-> "PROD", KSEF_PUBLIC_KEY |-> ServerPem, TZ |-> "UTC"],
      [KSEF_NIP |-> ServerNip, KSEF_TOKEN |-> ServerSecret, KSEF_ENV |-> "PROD", KSEF_PUBLIC_KEY |-> "",        TZ |-> "UTC"] }

\* setDate(getDate() - 1) works on the local calendar: the day before is 24
\* hours back, or 23 or 25 across a daylight-saving change of the time zone.
LocalDayHours(tz) ==
    IF tz = "UTC" THEN {DayHours} ELSE {DayHours - 1, DayHours, DayHours + 1}

\* ------------------------------------------------------------- transport
\* What axios gives back for one request: a 2xx response, an error response
\* of the server (error.response set), or no response at all.
OkReply(data) == [kind |-> "ok", data |-> data]
HttpError(status, exceptionCode, description) ==
    [kind |-> "http", status |-> status, code |-> "ERR_BAD_RESPONSE",
     data |-> [exceptionCode |-> exceptionCode, description |-> description]]
TransportError(message, code) ==
    [kind |-> "transport", message |-> message, code |-> code]

NoResultsCode == "21104"
NoResultsReply == HttpError("400", NoResultsCode, <<"no invoices match">>)
AuthRefusedReply == HttpError("401", "21301", <<"authorisation refused">>)

\* Failures any request can meet, whatever the endpoint.
ErrorReplies ==
    { HttpError("500", "21001", <<"internal error">>),
      TransportError(<<"timeout of 30000ms exceeded">>, "ECONNABORTED") }

\* Failures of the invoice query: also ones whose text holds the digits of
\* the no-results code without being the no-results status.
QueryErrorReplies ==
    ErrorReplies \cup
    { HttpError("400", "21405", <<"reference ", "21104", " is locked">>),
      TransportError(<<"connect ECONNREFUSED 10.0.0.7:", "21104">>, "ECONNREFUSED") }

\* The message of the Error that call() throws (catch block).
CallErrorMessage(reply) ==
    LET status == IF reply.kind = "http" THEN reply.status ELSE "undefined"
        msg    == IF reply.kind = "http" THEN JSONstringify(reply.data) ELSE reply.message
        cause  == reply.code
    IN  <<"KSeF Call Failed: ", status, " - ">> \o msg \o <<" (Cause: ", cause, ")">>

\* KsefSession.call: the response's data, or a thrown Error.
Return(v) == [ok |-> TRUE, value |-> v]
Throw(message) == [ok |-> FALSE, message |-> message]

call(reply) ==
    IF reply.kind = "ok" THEN Return(reply.data) ELSE Throw(CallErrorMessage(reply))

\* ------------------------------------------------------ Token Encryptor
\* A text is a sequence of characters, a character being [ch, width] with
\* width the number of bytes of its UTF-8 form.  A string the model keeps
\* whole (a configured secret, an ISO timestamp) is a text of one character
\* of one byte.
Text(s) == <<[ch |-> s, width |-> 1]>>
Bar == [ch |-> "|", width |-> 1]

\* Buffer.from(message, 'utf-8'): each character gives its width bytes, in
\* order; byte k of n of a character is [of, k, n].
Utf8Char(c) == [k \in 1..c.width |-> [kind |-> "data", of |-> c.ch, k |-> k, n |-> c.width]]

RECURSIVE BufferFrom(_)
BufferFrom(text) ==
    IF Len(text) = 0 THEN << >> ELSE Utf8Char(Head(text)) \o BufferFrom(Tail(text))

\* The UTF-8 decoding of a buffer: one character per leading byte.
Utf8Decode(buffer) ==
    LET lead == SelectSeq(buffer, LAMBDA b : b.k = 1)
    IN  [i \in DOMAIN lead |-> [ch |-> lead[i].of, width |-> lead[i].n]]

\* Buffer.toString('base64') and its inverse: base64 is one-to-one on byte
\* strings.
Base64(bytes) == [base64 |-> bytes]
FromBase64(s) == s.base64

\* The key pairs: the server's, and another one of a longer modulus.
ServerKey == "KEY-SERVER"          \* the private half of the server's key pair
KeyPairs ==
    { [public |-> ServerPem, private |-> ServerKey, bytes |-> ModulusBytes],
      [public |-> "PEM-OTHER", private |-> "KEY-OTHER", bytes |-> ModulusBytes + 1] }
KeyPairOf(pem) == CHOOSE kp \in KeyPairs : kp.public = pem

\* PKCS#1 v1.5 encryption padding of a buffer to the length of the modulus:
\* 00 02, nonzero random bytes, 00, the buffer.  The values of the random
\* bytes are left out: whatever they are, none is zero.
Pkcs1Pad(buffer, modulusBytes) ==
    <<[kind |-> "zero"], [kind |-> "two"]>>
      \o [i \in 1..(modulusBytes - 3 - Len(buffer)) |-> [kind |-> "nonzero"]]
      \o <<[kind |-> "zero"]>> \o buffer

\* Its inverse: what follows the first zero byte after the two leading bytes.
Pkcs1Unpad(block) ==
    LET sep == CHOOSE i \in 3..Len(block) :
                   /\ block[i].kind = "zero"
                   /\ \A j \in 3..(i - 1) : block[j].kind # "zero"
    IN  SubSeq(block, sep + 1, Len(block))

\* Mutant: the timestamp comes first in the message.
encryptToken_TimestampFirst(token, challengeTimestamp, publicKeyPem) ==
    LET message == challengeTimestamp \o <<Bar>> \o token
        buffer  == BufferFrom(message)
    IN  IF ~WellFormedPem(publicKeyPem)
        THEN Throw(<<"error:0909006C:PEM routines:get_name:no start line">>)
        ELSE IF Len(buffer) > KeyPairOf(publicKeyPem).bytes - Pkcs1Overhead
        THEN Throw(<<"error:0406D06E:rsa routines:RSA_padding_add_PKCS1_type_2:data too large for key size">>)
        ELSE Return(Base64([key |-> publicKeyPem,
                            block |-> Pkcs1Pad(buffer, KeyPairOf(publicKeyPem).bytes)]))

\* KsefEncryption.encryptToken: RSA PKCS#1 v1.5 of the UTF-8 bytes of
\* token + "|" + timestamp, base64-encoded.  crypto.publicEncrypt throws on a
\* key it cannot parse and on a buffer longer than the modulus less the
\* padding's overhead.  The RSA permutation of the padded block under the key
\* is kept as the pair [key, block].
encryptToken(token, challengeTimestamp, publicKeyPem) ==
    LET message == token \o <<Bar>> \o challengeTimestamp
        buffer  == BufferFrom(message)
    IN  IF ~WellFormedPem(publicKeyPem)
        THEN Throw(<<"error:0909006C:PEM routines:get_name:no start line">>)
        ELSE IF Len(buffer) > KeyPairOf(publicKeyPem).bytes - Pkcs1Overhead
        THEN Throw(<<"error:0406D06E:rsa routines:RSA_padding_add_PKCS1_type_2:data too large for key size">>)
        ELSE Return(Base64([key |-> publicKeyPem,
                            block |-> Pkcs1Pad(buffer, KeyPairOf(publicKeyPem).bytes)]))

\* crypto.privateDecrypt of a base64 ciphertext, read as UTF-8: the text, or
\* the padding check's error under a key that is not the mate of the one the
\* text was encrypted with.
privateDecrypt(privateKey, ciphertext) ==
    LET c == FromBase64(ciphertext)
    IN  IF KeyPairOf(c.key).private = privateKey
        THEN Return(Utf8Decode(Pkcs1Unpad(c.block)))
        ELSE Throw(<<"error:04065072:rsa routines:rsa_ossl_private_decrypt:padding check failed">>)

\* The server's private-key decryption of a token.
Decrypt(ciphertext) ==
    LET r == privateDecrypt(ServerKey, ciphertext)
    IN  IF r.ok THEN r.value ELSE <<"garbage">>

\* ------------------------------------------------------ Protocol Client
\* Mutant: the timestamp returned is not the one of the response but the
\* epoch.
getChallenge_OwnTimestamp(reply) ==
    LET r == call(reply)
    IN  IF ~r.ok THEN r
        ELSE IF r.value.timestamp = Absent \/ r.value.challenge = Absent
             THEN Throw(<<"Invalid challenge response">>)
             ELSE Return([timestamp |-> toISOString(0), challenge |-> r.value.challenge])

\* Mutant: the error of the probe request is thrown again.
checkConnectivity_Rethrow(reply) ==
    LET r == call(reply)
    IN  IF r.ok THEN Return(TRUE) ELSE r

\* KsefSession.checkConnectivity, from the reply to its GET: true, or false
\* from the catch block.
checkConnectivity(reply) ==
    LET r == call(reply)
    IN  IF r.ok THEN Return(TRUE) ELSE Return(FALSE)

\* KsefSession.getChallenge, from the reply to POST /auth/challenge.
getChallenge(reply) ==
    LET r == call(reply)
    IN  IF ~r.ok THEN r
        ELSE IF r.value.timestamp = Absent \/ r.value.challenge = Absent
             THEN Throw(<<"Invalid challenge response">>)
             ELSE Return([timestamp |-> r.value.timestamp, challenge |-> r.value.challenge])

\* Mutant: the challenge of the first handshake is kept and sent again.
LoginBody_KeptChallenge(ch, nip, encryptedToken) ==
    [challenge |-> [ch.challenge EXCEPT !.nonce = 1],
     contextIdentifier |-> [type |-> "Nip", value |-> nip],
     encryptedToken |-> encryptedToken]

\* KsefSession.initSession, steps B and C: the body of POST /auth/ksef-token.
LoginBody(ch, nip, encryptedToken) ==
    [challenge |-> ch.challenge,
     contextIdentifier |-> [type |-> "Nip", value |-> nip],
     encryptedToken |-> encryptedToken]

\* KsefSession.initSession up to its second request: the login body, or the
\* error of getChallenge or of encryptToken.
InitSessionRequest(reply, nip, token, publicKey) ==
    LET c == getChallenge(reply)
    IN  IF ~c.ok THEN [ok |-> FALSE, message |-> c.message, at |-> "challenge"]
        ELSE LET e == encryptToken(Text(token), Text(c.value.timestamp), publicKey)
             IN  IF ~e.ok THEN [ok |-> FALSE, message |-> e.message, at |-> "encrypt"]
                 ELSE Return(LoginBody(c.value, nip, e.value))

\* Mutant: a failed login exchange is caught and no token is returned
\* instead of the error being thrown.
InitSessionResult_Swallow(reply) ==
    LET r == call(reply)
    IN  IF ~r.ok THEN Return(0)
        ELSE IF r.value.accessToken = Absent
             THEN Throw(<<"Cannot read properties of undefined (reading 'token')">>)
             ELSE Return(r.value.accessToken.token)

\* KsefSession.initSession, step D: responseData.accessToken.token.
InitSessionResult(reply) ==
    LET r == call(reply)
    IN  IF ~r.ok THEN r
        ELSE IF r.value.accessToken = Absent
             THEN Throw(<<"Cannot read properties of undefined (reading 'token')">>)
             ELSE Return(r.value.accessToken.token)

\* KsefSession.fetchInvoices: the payload and the one request it sends.
FetchPayload(fromDate, toDate) ==
    [subjectType |-> "Subject1",
     dateRange |-> [dateType |-> "AcquisitionTimestamp",
                    from |-> toISOString(fromDate),
                    to |-> toISOString(toDate)]]

\* Mutant: the first session token ever obtained is kept and sent again by
\* later cycles.
FetchRequest_KeptToken(token, fromDate, toDate) ==
    [endpoint |-> "/invoices/query/metadata",
     pageSize |-> PageSize, pageOffset |-> PageOffset,
     SessionToken |-> IF token > 1 THEN 1 ELSE token,
     body |-> FetchPayload(fromDate, toDate)]

FetchRequest(token, fromDate, toDate) ==
    [endpoint |-> "/invoices/query/metadata",
     pageSize |-> PageSize, pageOffset |-> PageOffset,
     SessionToken |-> token,
     body |-> FetchPayload(fromDate, toDate)]

\* Mutant: a header equal to an earlier one of the list is dropped.
FetchInvoicesResult_Dedup(reply) ==
    LET r == call(reply)
    IN  IF r.ok
        THEN LET l    == r.value.invoiceHeaderList
                 keep == {i \in DOMAIN l : \A j \in 1..(i - 1) : l[j] # l[i]}
             IN  Return([k \in 1..Cardinality(keep) |->
                           l[CHOOSE i \in keep : Cardinality({j \in keep : j < i}) = k - 1]])
        ELSE IF Includes(r.message, <<"21104">>) THEN Return(<< >>)
        ELSE r

\* KsefSession.fetchInvoices, from the reply to its request: the header list
\* of a 2xx reply (the server sends invoiceHeaderList, possibly empty), the
\* empty list for a thrown message that includes "21104", else the error.
FetchInvoicesResult(reply) ==
    LET r == call(reply)
    IN  IF r.ok THEN Return(r.value.invoiceHeaderList)
        ELSE IF Includes(r.message, <<"21104">>) THEN Return(<< >>)
        ELSE r

\* ------------------------------------------------------ the KSeF server
\* One invoice header of the server, as fetchInvoices receives it.
Header(ref, t) == [ksefReferenceNumber |-> ref, acquisitionTimestamp |-> toISOString(t)]

\* Sizes of the batches in which invoices reach the server.
BatchSizes == {1, PageSize + 1}

Batch(first, n, t) == [i \in 1..n |-> Header(first + i - 1, t)]

Min(a, b) == IF a < b THEN a ELSE b

\* The headers of the half-open window [from, to), in the server's order.
InWindow(h, from, to) ==
    /\ ParseDate(from) <= ParseDate(h.acquisitionTimestamp)
    /\ ParseDate(h.acquisitionTimestamp) < ParseDate(to)

Matching(held, from, to) == SelectSeq(held, LAMBDA h : InWindow(h, from, to))

\* The page the server sends for pageSize and pageOffset.
Page(matching, pageSize, pageOffset) ==
    SubSeq(matching, pageOffset * pageSize + 1,
           Min(Len(matching), (pageOffset + 1) * pageSize))

\* Replies to GET /v2/security/public-key-certificates.
ProbeReplies == {OkReply(<<"certificates">>)} \cup ErrorReplies

\* Replies to POST /auth/challenge at time clk, n challenges issued so far.
\* A challenge value names its number and the instant of issue.
ChallengeReplies(clk, n) ==
    { OkReply([timestamp |-> toISOString(clk), challenge |-> [nonce |-> n + 1, at |-> clk]]),
      OkReply([timestamp |-> toISOString(clk), challenge |-> Absent]),
      OkReply([timestamp |-> Absent, challenge |-> Absent]) } \cup ErrorReplies

\* The server accepts a login whose challenge it issued and has not seen used,
\* for its taxpayer, with the secret and the challenge's timestamp encrypted
\* under its key.
LoginAccepted(body, auth) ==
    /\ body.challenge.nonce \in 1..auth.issued
    /\ body.challenge.nonce \notin auth.used
    /\ body.contextIdentifier.value = ServerNip
    /\ Decrypt(body.encryptedToken)
         = Text(ServerSecret) \o <<Bar>> \o Text(toISOString(body.challenge.at))

\* Replies to POST /auth/ksef-token.  An accepted login answers with the token
\* under accessToken, or under another field name (accessToken undefined).
LoginReplies(body, auth) ==
    IF LoginAccepted(body, auth)
    THEN { OkReply([accessToken |-> [token |-> auth.sessions + 1]]),
           OkReply([accessToken |-> Absent]) } \cup ErrorReplies
    ELSE {AuthRefusedReply} \cup ErrorReplies

\* Replies to POST /invoices/query/metadata.  An empty window is answered
\* with the no-results status or with an empty list.
QueryReplies(req, held, auth) ==
    IF req.SessionToken \notin 1..auth.sessions
    THEN {AuthRefusedReply} \cup QueryErrorReplies
    ELSE LET m == Matching(held, req.body.dateRange.from, req.body.dateRange.to)
         IN  (IF m = << >>
              THEN {NoResultsReply, OkReply([invoiceHeaderList |-> << >>])}
              ELSE {OkReply([invoiceHeaderList |-> Page(m, req.pageSize, req.pageOffset)])})
             \cup QueryErrorReplies

\* ------------------------------------------------------ Supabase tables
\* A table is a set of rows.  .select().eq('key', k).single()
SelectSingle(table, k) ==
    LET found == {r \in table : r.key = k}
    IN  IF Cardinality(found) = 1
        THEN [data |-> CHOOSE r \in found : TRUE, error |-> FALSE]
        ELSE [data |-> Absent, error |-> TRUE]

\* .upsert(row) on ksef_state (primary key: key)
UpsertState(table, row) == {r \in table : r.key # row.key} \cup {row}

Range(f) == {f[i] : i \in DOMAIN f}

\* Mutant: a plain insert into a table without the unique key.
UpsertInvoices_Insert(table, rows) == table \cup Range(rows)

\* Mutant: on conflict the existing row is removed and the new one is not
\* written.
UpsertInvoices_DropOnConflict(table, rows) ==
    {r \in table : \A i \in DOMAIN rows : rows[i].reference_number # r.reference_number}
        \cup {rows[i] : i \in {j \in DOMAIN rows :
                    \A r \in table : r.reference_number # rows[j].reference_number}}

\* The store rejects an upsert statement in which two rows carry the same
\* conflict key (the statement would affect one row a second time).
StatementValid(rows) ==
    Cardinality({rows[i].reference_number : i \in DOMAIN rows}) = Len(rows)

\* .upsert(rows, { onConflict: 'reference_number' }) on ksef_invoices
UpsertInvoices(table, rows) ==
    LET keys == {rows[i].reference_number : i \in DOMAIN rows}
    IN  {r \in table : r.reference_number \notin keys} \cup Range(rows)

\* --------------------------------------------------- KsefSyncService
\* getLastSyncDate, from the result of the select: the stored instant, or
\* "24h ago" (one local calendar day before the clock) on error or no data.
getLastSyncDate(res, clk, dayLen) ==
    IF res.error \/ res.data = Absent THEN clk - dayLen
    ELSE ParseDate(res.data.value.timestamp)

\* A row of ksef_state as updateLastSyncDate leaves it.
StoredWatermark(t) == [key |-> "last_sync", value |-> [timestamp |-> toISOString(t)]]

\* Mutant: the row carries the wall clock at the time of the write
\* (new Date()) instead of the date passed in.
WatermarkRow_WallClock(date) ==
    [key |-> "last_sync", value |-> [timestamp |-> toISOString(clock)]]

\* Mutant: 'now' is kept in a field that the invocations share, so the row
\* carries the 'now' captured last by any of them.
WatermarkRow_SharedNow(date) ==
    LET latest == CHOOSE t \in {now[q] : q \in Procs} : \A u \in {now[q] : q \in Procs} : u <= t
    IN  [key |-> "last_sync", value |-> [timestamp |-> toISOString(latest)]]

\* Mutant: the row carries the instant one day before the date passed in.
WatermarkRow_DayBefore(date) ==
    [key |-> "last_sync", value |-> [timestamp |-> toISOString(date - DayHours)]]

\* updateLastSyncDate: the row it upserts.
WatermarkRow(date) == [key |-> "last_sync", value |-> [timestamp |-> toISOString(date)]]

\* saveInvoices: invoices.map(...)
InvoiceRows(invs) ==
    [i \in DOMAIN invs |->
        [reference_number |-> invs[i].ksefReferenceNumber,
         buyer_nip |-> "MY_COMPANY",
         acquisition_timestamp |-> invs[i].acquisitionTimestamp]]

\* runSync: the public key it passes to initSession.
PublicKeyOf(e) ==
    IF e.KSEF_PUBLIC_KEY # "" THEN e.KSEF_PUBLIC_KEY
    ELSE IF e.KSEF_ENV = "PROD" THEN KSEF_KEYS.PROD ELSE KSEF_KEYS.TEST

\* runSync: the value it returns.
SyncResult(at, invs) ==
    [synced_at |-> at, new_invoices_count |-> Len(invs), invoices |-> invs]

\* GET: the two JSON answers of the route.
NoResponse == [status |-> "none"]

\* No finished cycle is remembered.
NoPrev == [status |-> "none", failedAt |-> "", saveError |-> FALSE, lastSyncDate |-> 0]

\* checkConnectivity has not been called.
NoProbe == [reply |-> "none", result |-> Absent]

\* encryptToken has not been called on its own.
NoEncryption ==
    [called |-> FALSE, token |-> << >>, challengeTimestamp |-> << >>,
     publicKeyPem |-> "", result |-> Absent]
OkResponse(result) == [status |-> "ok", http |-> 200, data |-> result]
ErrorResponse(message) == [status |-> "error", http |-> 500, message |-> message]

NewTrace(state, stored) ==
    [failedAt |-> "", challengeReply |-> "none", loginReply |-> "none",
     queryReply |-> "none",
     saveError |-> FALSE, updateError |-> FALSE, written |-> Absent,
     persisted |-> FALSE, repeated |-> FALSE,
     startState |-> state, startInvoices |-> stored]

\* What a reply is on the wire: a 2xx answer, the designated no-results
\* status, or any other failure.
ReplyClass(reply) ==
    IF reply.kind = "ok" THEN "ok"
    ELSE IF reply.kind = "http" /\ reply.data.exceptionCode = NoResultsCode THEN "noresults"
    ELSE "error"

\* The store a process starts from: no watermark record yet, or the record an
\* earlier successful cycle wrote at the current hour.
Init ==
    /\ clock = 0
    /\ env \in Envs
    /\ ksef_state \in {{}, {StoredWatermark(0)}}
    /\ ksef_invoices = {}
    /\ serverInvoices = << >>
    /\ serverAuth = [issued |-> 0, used |-> {}, sessions |-> 0]
    /\ arrivals = 0
    /\ cycles = 0
    /\ pc = [p \in Procs |-> "idle"]
    /\ lastSyncDate = [p \in Procs |-> 0]
    /\ now = [p \in Procs |-> 0]
    /\ sessionToken = [p \in Procs |-> 0]
    /\ invoices = [p \in Procs |-> << >>]
    /\ requests = [p \in Procs |-> << >>]
    /\ response = [p \in Procs |-> NoResponse]
    /\ trace = [p \in Procs |-> NewTrace({}, {})]
    /\ prev = NoPrev
    /\ firstFrom = [set |-> FALSE, at |-> 0]
    /\ challengesSent = << >>
    /\ connectivity = NoProbe
    /\ encryption = NoEncryption

\* ------------------------------------------------------------ environment
Tick ==
    /\ clock < MaxClock
    /\ clock' = clock + 1
    /\ UNCHANGED <<encryption, connectivity, env, ksef_state, ksef_invoices, serverInvoices, serverAuth,
                   arrivals, cycles, pc, lastSyncDate, now, sessionToken,
                   invoices, requests, response, trace, prev, firstFrom,
                   challengesSent>>

\* The server receives a batch of invoices: their acquisition timestamp is
\* the time at which they become visible.
ServerReceive ==
    /\ arrivals < MaxArrivals
    /\ \E n \in BatchSizes :
         serverInvoices' = serverInvoices \o Batch(Len(serverInvoices) + 1, n, clock)
    /\ arrivals' = arrivals + 1
    /\ UNCHANGED <<encryption, connectivity, clock, env, ksef_state, ksef_invoices, serverAuth, cycles,
                   pc, lastSyncDate, now, sessionToken, invoices, requests,
                   response, trace, prev, firstFrom, challengesSent>>

\* ------------------------------------------------------------ GET / runSync
\* Mutant: only the tax identifier is required.
MissingCredentials_NipOnly(nip, token) == nip = ""

\* runSync, step 2: !nip || !token.
MissingCredentials(nip, token) == nip = "" \/ token = ""

\* runSync throws, GET catches: status 'error', HTTP 500.
Finish(p, resp, tr, last) ==
    /\ pc' = [pc EXCEPT ![p] = "idle"]
    /\ response' = [response EXCEPT ![p] = resp]
    /\ trace' = [trace EXCEPT ![p] = tr]
    /\ prev' = [status |-> resp.status, failedAt |-> tr.failedAt,
                saveError |-> tr.saveError, lastSyncDate |-> last]

Send(p, req) == requests' = [requests EXCEPT ![p] = Append(@, req)]

\* GET is invoked: runSync starts and awaits the select of getLastSyncDate.
Start(p) ==
    /\ pc[p] = "idle"
    /\ cycles < MaxCycles
    /\ cycles' = cycles + 1
    /\ pc' = [pc EXCEPT ![p] = "read"]
    /\ lastSyncDate' = [lastSyncDate EXCEPT ![p] = 0]
    /\ now' = [now EXCEPT ![p] = 0]
    /\ sessionToken' = [sessionToken EXCEPT ![p] = 0]
    /\ invoices' = [invoices EXCEPT ![p] = << >>]
    /\ requests' = [requests EXCEPT ![p] = << >>]
    /\ response' = [response EXCEPT ![p] = NoResponse]
    /\ trace' = [trace EXCEPT ![p] = NewTrace(ksef_state, ksef_invoices)]
    /\ UNCHANGED <<encryption, connectivity, clock, env, ksef_state, ksef_invoices, serverInvoices,
                   serverAuth, arrivals, prev, firstFrom, challengesSent>>

\* The select resolves (with the row, or with an error of the store):
\* runSync lines 17-37 up to the request of getChallenge.
ReadReturns(p) ==
    /\ pc[p] = "read"
    /\ \E readOk \in BOOLEAN, dayLen \in LocalDayHours(env.TZ) :
         LET res  == IF readOk THEN SelectSingle(ksef_state, "last_sync")
                     ELSE [data |-> Absent, error |-> TRUE]
             last == getLastSyncDate(res, clock, dayLen)
         IN  /\ lastSyncDate' = [lastSyncDate EXCEPT ![p] = last]
             /\ now' = [now EXCEPT ![p] = clock]
             /\ firstFrom' = IF firstFrom.set THEN firstFrom ELSE [set |-> TRUE, at |-> last]
             /\ IF MissingCredentials(env.KSEF_NIP, env.KSEF_TOKEN)
                THEN /\ Finish(p, ErrorResponse(<<"Missing Credentials">>),
                               [trace[p] EXCEPT !.failedAt = "credentials"], last)
                     /\ UNCHANGED requests
                ELSE /\ pc' = [pc EXCEPT ![p] = "challenge"]
                     /\ Send(p, [endpoint |-> "/auth/challenge",
                                 body |-> [contextIdentifier |->
                                              [type |-> "Nip", value |-> env.KSEF_NIP]]])
                     /\ UNCHANGED <<response, trace, prev>>
    /\ UNCHANGED <<encryption, connectivity, clock, env, ksef_state, ksef_invoices, serverInvoices,
                   serverAuth, arrivals, cycles, sessionToken, invoices,
                   challengesSent>>

\* The challenge request resolves: initSession steps A-C and the login request.
ChallengeReturns(p) ==
    /\ pc[p] = "challenge"
    /\ \E reply \in ChallengeReplies(clock, serverAuth.issued) :
         LET r == InitSessionRequest(reply, env.KSEF_NIP, env.KSEF_TOKEN, PublicKeyOf(env))
         IN  /\ serverAuth' =
                   IF reply.kind = "ok" /\ reply.data.challenge # Absent
                   THEN [serverAuth EXCEPT !.issued = @ + 1]
                   ELSE serverAuth
             /\ IF r.ok
                THEN /\ pc' = [pc EXCEPT ![p] = "login"]
                     /\ Send(p, [endpoint |-> "/auth/ksef-token", body |-> r.value])
                     /\ challengesSent' = Append(challengesSent, r.value.challenge.nonce)
                     /\ trace' = [trace EXCEPT ![p].challengeReply = ReplyClass(reply)]
                     /\ prev' = NoPrev
                     /\ UNCHANGED response
                ELSE /\ Finish(p, ErrorResponse(r.message),
                               [trace[p] EXCEPT !.failedAt = r.at,
                                                !.challengeReply = ReplyClass(reply)],
                               lastSyncDate[p])
                     /\ UNCHANGED <<requests, challengesSent>>
    /\ UNCHANGED <<encryption, connectivity, clock, env, ksef_state, ksef_invoices, serverInvoices,
                   arrivals, cycles, lastSyncDate, now, sessionToken, invoices,
                   firstFrom>>

\* The login request resolves: initSession step D, then the request of
\* fetchInvoices(sessionToken, lastSyncDate, now).
LoginReturns(p) ==
    /\ pc[p] = "login"
    /\ LET body == requests[p][Len(requests[p])].body
       IN  \E reply \in LoginReplies(body, serverAuth) :
             LET r == InitSessionResult(reply)
             IN  /\ serverAuth' =
                       IF reply.kind = "ok"
                       THEN [serverAuth EXCEPT
                                !.used = @ \cup {body.challenge.nonce},
                                !.sessions = @ + 1]
                       ELSE serverAuth
                 /\ IF r.ok
                    THEN /\ sessionToken' = [sessionToken EXCEPT ![p] = r.value]
                         /\ pc' = [pc EXCEPT ![p] = "query"]
                         /\ Send(p, FetchRequest(r.value, lastSyncDate[p], now[p]))
                         /\ trace' = [trace EXCEPT ![p].loginReply = ReplyClass(reply)]
                         /\ UNCHANGED <<response, prev>>
                    ELSE /\ Finish(p, ErrorResponse(r.message),
                                   [trace[p] EXCEPT !.failedAt = "login",
                                                    !.loginReply = ReplyClass(reply)],
                                   lastSyncDate[p])
                         /\ UNCHANGED <<sessionToken, requests>>
    /\ UNCHANGED <<encryption, connectivity, clock, env, ksef_state, ksef_invoices, serverInvoices,
                   arrivals, cycles, lastSyncDate, now, invoices, firstFrom,
                   challengesSent>>

\* The invoice query resolves: the rest of fetchInvoices, then runSync step 5
\* (the upsert of saveInvoices when there are invoices) or step 6.
QueryReturns(p) ==
    /\ pc[p] = "query"
    /\ LET req == requests[p][Len(requests[p])]
       IN  \E reply \in QueryReplies(req, serverInvoices, serverAuth) :
             LET r == FetchInvoicesResult(reply)
             IN  IF r.ok
                 THEN /\ invoices' = [invoices EXCEPT ![p] = r.value]
                      /\ trace' = [trace EXCEPT ![p].queryReply = ReplyClass(reply)]
                      /\ IF Len(r.value) > 0
                         THEN /\ pc' = [pc EXCEPT ![p] = "save"]
                              /\ Send(p, [endpoint |-> "ksef_invoices.upsert"])
                         ELSE /\ pc' = [pc EXCEPT ![p] = "update"]
                              /\ Send(p, [endpoint |-> "ksef_state.upsert"])
                      /\ UNCHANGED <<response, prev>>
                 ELSE /\ Finish(p, ErrorResponse(r.message),
                                [trace[p] EXCEPT !.failedAt = "fetch",
                                                 !.queryReply = ReplyClass(reply)],
                                lastSyncDate[p])
                      /\ UNCHANGED <<invoices, requests>>
    /\ UNCHANGED <<encryption, connectivity, clock, env, ksef_state, ksef_invoices, serverInvoices,
                   serverAuth, arrivals, cycles, lastSyncDate, now, sessionToken,
                   firstFrom, challengesSent>>

\* The upsert of saveInvoices resolves: the store wrote the rows, or it
\* answers { error } and wrote nothing.  saveInvoices logs the error and
\* returns; runSync goes on to updateLastSyncDate(now).
SaveReturns(p) ==
    /\ pc[p] = "save"
    /\ LET rows == InvoiceRows(invoices[p])
       IN  \E storeOk \in {FALSE, StatementValid(rows)} :
             /\ ksef_invoices' = IF storeOk THEN UpsertInvoices(ksef_invoices, rows)
                                 ELSE ksef_invoices
             /\ trace' = [trace EXCEPT ![p].saveError = ~storeOk,
                                       ![p].persisted = storeOk \/ @,
                                       ![p].repeated = storeOk /\ trace[p].persisted]
    /\ pc' = [pc EXCEPT ![p] = "update"]
    /\ Send(p, [endpoint |-> "ksef_state.upsert"])
    /\ UNCHANGED <<encryption, connectivity, clock, env, ksef_state, serverInvoices, serverAuth, arrivals,
                   cycles, lastSyncDate, now, sessionToken, invoices, response,
                   prev, firstFrom, challengesSent>>

\* The upsert of updateLastSyncDate resolves (its result is not looked at):
\* runSync returns its result and GET answers status 'ok'.
UpdateReturns(p) ==
    /\ pc[p] = "update"
    /\ \E storeOk \in BOOLEAN :
         /\ ksef_state' = IF storeOk THEN UpsertState(ksef_state, WatermarkRow(now[p]))
                          ELSE ksef_state
         /\ Finish(p, OkResponse(SyncResult(now[p], invoices[p])),
                   [trace[p] EXCEPT !.updateError = ~storeOk,
                                    !.written = WatermarkRow(now[p])],
                   lastSyncDate[p])
    /\ UNCHANGED <<encryption, connectivity, clock, env, ksef_invoices, serverInvoices, serverAuth,
                   arrivals, cycles, lastSyncDate, now, sessionToken, invoices,
                   requests, firstFrom, challengesSent>>

Cycle(p) ==
    \/ Start(p)
    \/ ReadReturns(p)
    \/ ChallengeReturns(p)
    \/ LoginReturns(p)
    \/ QueryReturns(p)
    \/ SaveReturns(p)
    \/ UpdateReturns(p)

\* Serialized invocations: the single scheduled job.
Next ==
    \/ Tick
    \/ ServerReceive
    \/ \E p \in SerialProcs : Cycle(p)

Spec == Init /\ [][Next]_vars

\* ------------------------------------------- saveInvoices, any list, any store
\* runSync has reached saveInvoices(invoices) with a list of headers its query
\* returned, over a store that earlier cycles filled; later cycles reach it
\* again, with the same list or another one.
MaxList == 2           \* length of a list of headers
\* Two references, so that a list may meet a stored row and may miss one;
\* two contents, so that a delivery may differ from the stored row; two
\* deliveries, the second being the repeated one.
References == 1..2
Contents == 0..1
Deliveries == 1..2

\* A row of ksef_invoices as saveInvoices leaves it.
StoredInvoice(ref, t) ==
    [reference_number |-> ref, buyer_nip |-> "MY_COMPANY",
     acquisition_timestamp |-> toISOString(t)]

HeaderLists ==
    UNION {[1..n -> {Header(ref, t) : ref \in References, t \in Contents}] : n \in 1..MaxList}

\* The table has a unique key on reference_number.
PriorStores ==
    {T \in SUBSET {StoredInvoice(ref, t) : ref \in References, t \in Contents} :
        \A r1, r2 \in T : r1.reference_number = r2.reference_number => r1 = r2}

InvoiceUpserts(p) ==
    {i \in DOMAIN requests[p] : requests[p][i].endpoint = "ksef_invoices.upsert"}

PersistInit ==
    /\ clock = 0
    /\ env \in {e \in Envs : e.KSEF_NIP = ServerNip /\ e.KSEF_TOKEN = ServerSecret
                                /\ e.KSEF_PUBLIC_KEY # ""}
    /\ ksef_state = {StoredWatermark(0)}
    /\ ksef_invoices \in PriorStores
    /\ serverInvoices = << >>
    /\ serverAuth = [issued |-> 0, used |-> {}, sessions |-> 0]
    /\ arrivals = 0
    /\ cycles = 0
    /\ pc = [p \in Procs |-> IF p \in SerialProcs THEN "save" ELSE "idle"]
    /\ lastSyncDate = [p \in Procs |-> 0]
    /\ now = [p \in Procs |-> 0]
    /\ sessionToken = [p \in Procs |-> 0]
    /\ \E l \in HeaderLists :
          invoices = [p \in Procs |-> IF p \in SerialProcs THEN l ELSE << >>]
    /\ requests = [p \in Procs |-> IF p \in SerialProcs
                                   THEN <<[endpoint |-> "ksef_invoices.upsert"]>>
                                   ELSE << >>]
    /\ response = [p \in Procs |-> NoResponse]
    /\ trace = [p \in Procs |-> NewTrace(ksef_state, ksef_invoices)]
    /\ prev = NoPrev
    /\ firstFrom = [set |-> FALSE, at |-> 0]
    /\ challengesSent = << >>
    /\ connectivity = NoProbe
    /\ encryption = NoEncryption

\* A later cycle reaches saveInvoices with the list its query returned.
Redeliver(p) ==
    /\ pc[p] = "update"
    /\ Cardinality(InvoiceUpserts(p)) + 1 \in Deliveries
    /\ \E l \in HeaderLists :
         /\ invoices' = [invoices EXCEPT ![p] = l]
         /\ trace' = [trace EXCEPT ![p].persisted = @ /\ l = invoices[p]]
    /\ pc' = [pc EXCEPT ![p] = "save"]
    /\ Send(p, [endpoint |-> "ksef_invoices.upsert"])
    /\ UNCHANGED <<encryption, connectivity, clock, env, ksef_state, ksef_invoices, serverInvoices,
                   serverAuth, arrivals, cycles, lastSyncDate, now, sessionToken,
                   response, prev, firstFrom, challengesSent>>

PersistNext == \E p \in SerialProcs : SaveReturns(p) \/ Redeliver(p)

PersistSpec == PersistInit /\ [][PersistNext]_vars

\* --------------------------------------------------- the diagnostic probe
\* checkConnectivity is called by no step of runSync: a caller of its own
\* probes the server, over any store, while invoices arrive and time passes.
CheckConnectivity ==
    /\ \E reply \in ProbeReplies :
         connectivity' = [reply |-> ReplyClass(reply), result |-> checkConnectivity(reply)]
    /\ UNCHANGED <<encryption, clock, env, ksef_state, ksef_invoices, serverInvoices,
                   serverAuth, arrivals, cycles, pc, lastSyncDate, now,
                   sessionToken, invoices, requests, response, trace, prev,
                   firstFrom, challengesSent>>

ProbeInit ==
    /\ clock = 0
    /\ env \in Envs
    /\ ksef_state \in {{}, {StoredWatermark(0)}}
    /\ ksef_invoices \in PriorStores
    /\ serverInvoices = << >>
    /\ serverAuth = [issued |-> 0, used |-> {}, sessions |-> 0]
    /\ arrivals = 0
    /\ cycles = 0
    /\ pc = [p \in Procs |-> "idle"]
    /\ lastSyncDate = [p \in Procs |-> 0]
    /\ now = [p \in Procs |-> 0]
    /\ sessionToken = [p \in Procs |-> 0]
    /\ invoices = [p \in Procs |-> << >>]
    /\ requests = [p \in Procs |-> << >>]
    /\ response = [p \in Procs |-> NoResponse]
    /\ trace = [p \in Procs |-> NewTrace(ksef_state, ksef_invoices)]
    /\ prev = NoPrev
    /\ firstFrom = [set |-> FALSE, at |-> 0]
    /\ challengesSent = << >>
    /\ connectivity = NoProbe
    /\ encryption = NoEncryption

ProbeNext == Tick \/ ServerReceive \/ CheckConnectivity

ProbeSpec == ProbeInit /\ [][ProbeNext]_vars

\* --------------------------------------------- fetchInvoices, any answer
\* runSync awaits the query of fetchInvoices in a first cycle (no watermark
\* record, the default window), the server holding any list of headers of
\* that window: references may repeat and come in any order.
ServerLists ==
    UNION {[1..n -> {Header(ref, 0) : ref \in References}] : n \in 0..MaxList}

FetchInit ==
    /\ clock = MaxClock
    /\ env \in {e \in Envs : e.KSEF_NIP = ServerNip /\ e.KSEF_TOKEN = ServerSecret
                                /\ e.KSEF_PUBLIC_KEY # ""}
    /\ ksef_state = {}
    /\ ksef_invoices \in PriorStores
    /\ serverInvoices \in ServerLists
    /\ serverAuth = [issued |-> 1, used |-> {1}, sessions |-> 1]
    /\ arrivals = 0
    /\ cycles = 1
    /\ pc = [p \in Procs |-> IF p \in SerialProcs THEN "query" ELSE "idle"]
    /\ lastSyncDate = [p \in Procs |-> IF p \in SerialProcs THEN clock - DayHours ELSE 0]
    /\ now = [p \in Procs |-> IF p \in SerialProcs THEN clock ELSE 0]
    /\ sessionToken = [p \in Procs |-> IF p \in SerialProcs THEN 1 ELSE 0]
    /\ invoices = [p \in Procs |-> << >>]
    /\ requests = [p \in Procs |->
                     IF p \in SerialProcs
                     THEN << [endpoint |-> "/auth/challenge",
                              body |-> [contextIdentifier |->
                                           [type |-> "Nip", value |-> env.KSEF_NIP]]],
                             [endpoint |-> "/auth/ksef-token",
                              body |-> LoginBody(
                                  [timestamp |-> toISOString(clock),
                                   challenge |-> [nonce |-> 1, at |-> clock]],
                                  env.KSEF_NIP,
                                  encryptToken(Text(env.KSEF_TOKEN), Text(toISOString(clock)),
                                               PublicKeyOf(env)).value)],
                             FetchRequest(1, clock - DayHours, clock) >>
                     ELSE << >>]
    /\ response = [p \in Procs |-> NoResponse]
    /\ trace = [p \in Procs |->
                  IF p \in SerialProcs
                  THEN [NewTrace(ksef_state, ksef_invoices) EXCEPT
                           !.challengeReply = "ok", !.loginReply = "ok"]
                  ELSE NewTrace({}, {})]
    /\ prev = NoPrev
    /\ firstFrom = [set |-> TRUE, at |-> clock - DayHours]
    /\ challengesSent = <<1>>
    /\ connectivity = NoProbe
    /\ encryption = NoEncryption

FetchNext == \E p \in SerialProcs : QueryReturns(p) \/ SaveReturns(p) \/ UpdateReturns(p)

FetchSpec == FetchInit /\ [][FetchNext]_vars

\* ------------------------------------------------ encryptToken, any text
\* encryptToken is a static function: it is called here on its own, with any
\* secret and any timestamp of up to MaxText characters, some of them of two
\* bytes and some the separator itself, under the public key of either key
\* pair or under a placeholder of KsefKeys.ts.  It keeps no state, so one call
\* stands for every call.
MaxText == 2

Chars == {[ch |-> "a", width |-> 1], Bar, [ch |-> "U+017C", width |-> 2]}
Texts == UNION {[1..n -> Chars] : n \in 0..MaxText}
Pems == {kp.public : kp \in KeyPairs} \cup {KSEF_KEYS.TEST}

EncryptToken ==
    /\ ~encryption.called
    /\ \E token \in Texts, challengeTimestamp \in Texts, publicKeyPem \in Pems :
         encryption' = [called |-> TRUE, token |-> token,
                        challengeTimestamp |-> challengeTimestamp,
                        publicKeyPem |-> publicKeyPem,
                        result |-> encryptToken(token, challengeTimestamp, publicKeyPem)]
    /\ UNCHANGED <<connectivity, clock, env, ksef_state, ksef_invoices, serverInvoices,
                   serverAuth, arrivals, cycles, pc, lastSyncDate, now,
                   sessionToken, invoices, requests, response, trace, prev,
                   firstFrom, challengesSent>>

EncryptInit == Init

EncryptNext == EncryptToken

EncryptSpec == EncryptInit /\ [][EncryptNext]_vars

\* ------------------------------------------------- two invocations at once
\* Nothing serializes the GET handler: a second invocation can begin while
\* the first is suspended at any await.  Two invocations run one cycle each,
\* their steps interleaved in any order while time passes, over a store
\* whose watermark record is one hour old.  The server holds no invoice of
\* that hour, or one, or more than a page of them.
InitialWatermark == -1

Begin(p) ==
    /\ response[p] = NoResponse
    /\ Start(p)

InterleaveInit ==
    /\ clock = 0
    /\ env \in {e \in Envs : e.KSEF_NIP = ServerNip /\ e.KSEF_TOKEN = ServerSecret
                                /\ e.KSEF_PUBLIC_KEY # ""}
    /\ ksef_state = {StoredWatermark(InitialWatermark)}
    /\ ksef_invoices = {}
    /\ serverInvoices \in {Batch(1, n, InitialWatermark) : n \in {0} \cup BatchSizes}
    /\ serverAuth = [issued |-> 0, used |-> {}, sessions |-> 0]
    /\ arrivals = 0
    /\ cycles = 0
    /\ pc = [p \in Procs |-> "idle"]
    /\ lastSyncDate = [p \in Procs |-> 0]
    /\ now = [p \in Procs |-> 0]
    /\ sessionToken = [p \in Procs |-> 0]
    /\ invoices = [p \in Procs |-> << >>]
    /\ requests = [p \in Procs |-> << >>]
    /\ response = [p \in Procs |-> NoResponse]
    /\ trace = [p \in Procs |-> NewTrace(ksef_state, ksef_invoices)]
    /\ prev = NoPrev
    /\ firstFrom = [set |-> FALSE, at |-> 0]
    /\ challengesSent = << >>
    /\ connectivity = NoProbe
    /\ encryption = NoEncryption

InterleaveNext ==
    \/ Tick
    \/ \E p \in Procs :
          \/ Begin(p)
          \/ ReadReturns(p)
          \/ ChallengeReturns(p)
          \/ LoginReturns(p)
          \/ QueryReturns(p)
          \/ SaveReturns(p)
          \/ UpdateReturns(p)

InterleaveSpec == InterleaveInit /\ [][InterleaveNext]_vars

\* ================================================================ claims
Idle(p) == pc[p] = "idle"
Returned(p) == pc[p] = "idle" /\ response[p] # NoResponse
QueryEndpoint == "/invoices/query/metadata"
QueriesOf(p) == {i \in DOMAIN requests[p] : requests[p][i].endpoint = QueryEndpoint}
Stored(header) == \E r \in ksef_invoices : r.reference_number = header.ksefReferenceNumber
\* the cycle of p has written the watermark record
Advanced(p) == trace[p].written # Absent /\ ~trace[p].updateError

\* C1: store-then-advance.  A cycle that has written the watermark has every
\* invoice it fetched in the invoice store; and a cycle whose invoice upsert
\* failed has not written the watermark and does not answer 'ok'.
C1_StoreThenAdvance ==
    \A p \in Procs :
        /\ Advanced(p) => \A i \in DOMAIN invoices[p] : Stored(invoices[p][i])
        /\ trace[p].saveError =>
              /\ ksef_state = trace[p].startState
              /\ response[p].status # "ok"

\* C2: after a cycle that failed at authentication, fetch or persistence, the
\* next cycle reads the same watermark value as the failed cycle did,
\* whether the record is present or the default is used.
C2_NextReadEqualsFailedRead ==
    \A p \in Procs :
        (/\ pc[p] \notin {"idle", "read"}
         /\ \/ prev.status = "error" /\ prev.failedAt \in {"challenge", "encrypt", "login", "fetch"}
            \/ prev.saveError)
        => lastSyncDate[p] = prev.lastSyncDate

\* C3: no record lost.  Between cycles, every invoice the server holds whose
\* acquisition timestamp lies between the first cycle's lower bound and the
\* stored watermark is in the invoice store.
C3_NoRecordLost ==
    ((\A p \in Procs : Idle(p)) /\ firstFrom.set)
    => \A w \in ksef_state : \A i \in DOMAIN serverInvoices :
          (/\ firstFrom.at <= ParseDate(serverInvoices[i].acquisitionTimestamp)
           /\ ParseDate(serverInvoices[i].acquisitionTimestamp) < ParseDate(w.value.timestamp))
          => Stored(serverInvoices[i])

\* C4: when the server answers the query of fetchInvoices(token, from, to)
\* with a page, the sequence fetchInvoices returns holds every header of the
\* window [from, to) on the server, however many they are.
C4_FetchReturnsWholeWindow ==
    \A p \in Procs :
        (pc[p] \in {"save", "update"} /\ trace[p].queryReply = "ok")
        => invoices[p] = Matching(serverInvoices, toISOString(lastSyncDate[p]),
                                  toISOString(now[p]))

\* C5: after a cycle that returned successfully, the watermark store holds
\* the 'now' that cycle captured, also when the store rejected the write.
C5_SuccessWatermarkIsNow ==
    \A p \in Procs :
        (Returned(p) /\ response[p].status = "ok")
        => ksef_state = {StoredWatermark(now[p])}

\* C6: within one cycle 'now' is one value: the upper bound of the invoice
\* query, the watermark sent to the store and synced_at of the result are
\* all that value, and the lower bound of the query is the watermark value
\* the cycle read at its start.
C6_NowCapturedOnce ==
    \A p \in Procs :
        /\ \A i \in QueriesOf(p) :
              /\ requests[p][i].body.dateRange.to = toISOString(now[p])
              /\ requests[p][i].body.dateRange.from = toISOString(lastSyncDate[p])
        /\ (Returned(p) /\ response[p].status = "ok") =>
              /\ QueriesOf(p) # {}
              /\ trace[p].written.value.timestamp = toISOString(now[p])
              /\ response[p].data.synced_at = now[p]
              /\ ~trace[p].updateError => ksef_state = {StoredWatermark(now[p])}

\* a cycle returned 'ok' and its watermark write was accepted, the clock
\* having moved on since it captured 'now', from a lower bound that was read
\* from the store
C6_Witness ==
    \E p \in Procs :
        /\ Returned(p) /\ response[p].status = "ok"
        /\ QueriesOf(p) # {}
        /\ clock > now[p]
        /\ trace[p].startState = {StoredWatermark(lastSyncDate[p])}
        /\ ~trace[p].updateError

\* C7: every step that changes the watermark record stores an instant
\* greater than or equal to the one it replaces.
C7_WatermarkNeverDecreases ==
    [][\A old \in ksef_state : \A new \in ksef_state' :
          ParseDate(new.value.timestamp) >= ParseDate(old.value.timestamp)]_vars

\* a cycle replaced a stored watermark by a later one
C7_Witness ==
    \E p \in Procs :
        /\ Returned(p) /\ ~trace[p].updateError /\ trace[p].written # Absent
        /\ \E old \in trace[p].startState : \E new \in ksef_state :
              ParseDate(old.value.timestamp) < ParseDate(new.value.timestamp)

\* authentication failed in the cycle of p: the challenge request or the login
\* exchange was answered with an error, or the token could not be encrypted
AuthFailed(p) ==
    \/ trace[p].challengeReply = "error"
    \/ trace[p].loginReply = "error"
    \/ trace[p].challengeReply = "ok" /\ trace[p].failedAt = "encrypt"

\* C8: a cycle in which authentication failed has ended with an error, has
\* sent no invoice query, and has left the invoice store and the watermark
\* as they were at its start.
C8_AuthFailureChangesNothing ==
    \A p \in Procs :
        AuthFailed(p) =>
            /\ Returned(p) /\ response[p].status = "error" /\ response[p].http = 500
            /\ QueriesOf(p) = {}
            /\ ksef_invoices = trace[p].startInvoices
            /\ ksef_state = trace[p].startState

\* the login exchange was refused for an invalid secret, with a watermark
\* record in the store
C8_Witness ==
    \E p \in Procs :
        /\ env.KSEF_TOKEN # ServerSecret
        /\ trace[p].loginReply = "error"
        /\ Returned(p) /\ response[p].message = CallErrorMessage(AuthRefusedReply)
        /\ ksef_state # {}

\* C9: when the server answers the query with its no-results status, the
\* cycle returns 'ok' with new_invoices_count = 0 and no invoices, writes
\* nothing to the invoice store, and leaves the watermark at 'now'.
C9_NoDataCompletesAndAdvances ==
    \A p \in Procs :
        (trace[p].queryReply = "noresults" /\ Idle(p)) =>
            /\ response[p].status = "ok"
            /\ response[p].data.new_invoices_count = 0
            /\ response[p].data.invoices = << >>
            /\ ksef_invoices = trace[p].startInvoices
            /\ ksef_state = {StoredWatermark(now[p])}

\* C10: a cycle whose invoice query failed with anything but the no-results
\* status has ended with an error and has not written the watermark.
C10_OtherFailuresPropagate ==
    \A p \in Procs :
        trace[p].queryReply = "error" =>
            /\ Returned(p) /\ response[p].status = "error"
            /\ ksef_state = trace[p].startState

\* C11: the invoice store holds at most one row per reference number, and
\* once an upsert was accepted the row of every reference of its list is the
\* one that list delivered.
C11_OneRowPerReference ==
    /\ \A r1, r2 \in ksef_invoices : r1.reference_number = r2.reference_number => r1 = r2
    /\ \A p \in Procs :
          (pc[p] = "update" /\ ~trace[p].saveError) =>
             \A i \in DOMAIN invoices[p] :
                \E r \in ksef_invoices :
                   /\ r.reference_number = invoices[p][i].ksefReferenceNumber
                   /\ r.acquisition_timestamp = invoices[p][i].acquisitionTimestamp

\* a second delivery was accepted that carried a reference the store already
\* held with other content, and the store has one row for it
C11_Witness ==
    \E p \in Procs :
        /\ pc[p] = "update" /\ ~trace[p].saveError
        /\ Cardinality(InvoiceUpserts(p)) > 1
        /\ \E i \in DOMAIN invoices[p] : \E r0 \in trace[p].startInvoices :
              /\ r0.reference_number = invoices[p][i].ksefReferenceNumber
              /\ r0.acquisition_timestamp # invoices[p][i].acquisitionTimestamp
              /\ Cardinality({r \in ksef_invoices :
                                r.reference_number = r0.reference_number}) = 1

\* C12: persisting a list that the store has just accepted once more leaves
\* the set of stored rows as the first persisting left it.
C12_PersistTwiceIsPersistOnce ==
    [][\A p \in Procs :
          (/\ pc[p] = "save" /\ pc'[p] = "update"
           /\ ~trace'[p].saveError
           /\ trace[p].persisted)
          => ksef_invoices' = ksef_invoices]_vars

\* a list was accepted twice in a row over a store it changed
C12_Witness ==
    \E p \in Procs :
        /\ pc[p] = "update" /\ trace[p].repeated
        /\ ksef_invoices # trace[p].startInvoices

\* the requests of the cycle of p to one endpoint
RequestsTo(p, endpoint) == {i \in DOMAIN requests[p] : requests[p][i].endpoint = endpoint}

\* a step of the cycle of p has failed: a remote request was answered with
\* an error, or the store rejected a write
StepFailed(p) ==
    \/ trace[p].challengeReply = "error"
    \/ trace[p].loginReply = "error"
    \/ trace[p].queryReply = "error"
    \/ trace[p].saveError
    \/ trace[p].updateError

\* C13: within one cycle no request (challenge, login, query, invoice
\* upsert, watermark upsert) is sent twice; and once a step has failed the
\* cycle has ended with an error, no request having followed the failed one.
C13_NoRetryFirstFailureSurfaces ==
    \A p \in Procs :
        /\ \A i, j \in DOMAIN requests[p] :
              requests[p][i].endpoint = requests[p][j].endpoint => i = j
        /\ StepFailed(p) => Returned(p) /\ response[p].status = "error"
        /\ trace[p].saveError => RequestsTo(p, "ksef_state.upsert") = {}

\* C14: in the requests of one cycle, the login request directly follows the
\* challenge request, whose answer was a challenge; an invoice query follows
\* the login request, whose answer was a session token; the token the query
\* carries is that token, the last one the server issued; and the store
\* requests, the watermark record and, once a cycle has sent its invoice
\* upsert, the rows of the invoice store have no field for a token.
C14_ChallengeLoginQuery ==
    /\ \A p \in Procs : \A i \in DOMAIN requests[p] :
          /\ requests[p][i].endpoint = "/auth/ksef-token" =>
                /\ i > 1 /\ requests[p][i - 1].endpoint = "/auth/challenge"
                /\ trace[p].challengeReply = "ok"
          /\ requests[p][i].endpoint = QueryEndpoint =>
                /\ i > 1 /\ requests[p][i - 1].endpoint = "/auth/ksef-token"
                /\ trace[p].loginReply = "ok"
                /\ requests[p][i].SessionToken = sessionToken[p]
                /\ requests[p][i].SessionToken = serverAuth.sessions
          /\ requests[p][i].endpoint \in {"ksef_invoices.upsert", "ksef_state.upsert"} =>
                DOMAIN requests[p][i] = {"endpoint"}
    /\ \A r \in ksef_state : DOMAIN r = {"key", "value"} /\ DOMAIN r.value = {"timestamp"}
    /\ \A p \in Procs :
          (pc[p] = "update" /\ RequestsTo(p, "ksef_invoices.upsert") # {}) =>
             \A r \in ksef_invoices :
                DOMAIN r = {"reference_number", "buyer_nip", "acquisition_timestamp"}

\* a second cycle has sent its query, with a token other than the first
\* cycle's, and has written to both stores
C14_Witness ==
    \E p \in Procs :
        /\ cycles > 1 /\ QueriesOf(p) # {} /\ sessionToken[p] > 1
        /\ Returned(p) /\ ksef_invoices # {} /\ ksef_state # {}

\* C15: no challenge value is sent in two login requests, in one cycle or
\* across cycles; and the challenge a login request carries is the one the
\* server issued in answer to the challenge request just before it.
C15_ChallengeUsedOnce ==
    /\ \A i, j \in DOMAIN challengesSent :
          challengesSent[i] = challengesSent[j] => i = j
    /\ \A p \in Procs : \A i \in DOMAIN requests[p] :
          requests[p][i].endpoint = "/auth/ksef-token" =>
             /\ i > 1 /\ requests[p][i - 1].endpoint = "/auth/challenge"
             /\ requests[p][i].body.challenge.nonce = serverAuth.issued
             /\ requests[p][i].body.challenge.nonce = challengesSent[Len(challengesSent)]
             /\ Cardinality(RequestsTo(p, "/auth/ksef-token")) = 1

\* two cycles have each sent a login request, and the server accepted the
\* second
C15_Witness ==
    /\ Len(challengesSent) > 1
    /\ challengesSent[Len(challengesSent)] \in serverAuth.used

\* C16: a 2xx answer to the challenge request that lacks the timestamp or
\* the challenge value ends the cycle with 'Invalid challenge response' and
\* no login request; a login request, sent only with what getChallenge
\* returned, carries the challenge value the server issued and the token
\* encrypted with the timestamp of that issue; a failed challenge request
\* ends the cycle with the error of the call and no login request.
C16_ChallengeValidated ==
    \A p \in Procs :
        /\ (trace[p].challengeReply = "ok" /\ trace[p].failedAt = "challenge") =>
              /\ Returned(p) /\ response[p].status = "error"
              /\ response[p].message = <<"Invalid challenge response">>
              /\ RequestsTo(p, "/auth/ksef-token") = {}
        /\ \A i \in RequestsTo(p, "/auth/ksef-token") :
              /\ trace[p].challengeReply = "ok"
              /\ requests[p][i].body.challenge # Absent
              /\ requests[p][i].body.challenge.nonce = serverAuth.issued
              /\ Decrypt(requests[p][i].body.encryptedToken) =
                    Text(env.KSEF_TOKEN) \o <<Bar>>
                      \o Text(toISOString(requests[p][i].body.challenge.at))
        /\ trace[p].challengeReply = "error" =>
              /\ Returned(p) /\ response[p].status = "error"
              /\ Includes(response[p].message, <<"KSeF Call Failed: ">>)
              /\ RequestsTo(p, "/auth/ksef-token") = {}

\* a cycle ended on a 2xx challenge answer that lacked a field, after an
\* earlier cycle had sent a login request with a challenge issued after the
\* epoch
C16_Witness ==
    \E p \in Procs :
        /\ Returned(p) /\ trace[p].challengeReply = "ok" /\ trace[p].failedAt = "challenge"
        /\ challengesSent # << >> /\ clock > 0

\* C17: a call of checkConnectivity has not thrown: it returned true when
\* its request was answered 2xx and false when the request failed (error
\* status, timeout); and both stores are as they were.
C17_ProbeReturnsBoolean ==
    /\ connectivity # NoProbe =>
          /\ connectivity.result.ok
          /\ connectivity.result.value = (connectivity.reply = "ok")
    /\ \A p \in Procs :
          /\ ksef_state = trace[p].startState
          /\ ksef_invoices = trace[p].startInvoices

\* the probe failed, over a store that holds a watermark and invoices
C17_Witness ==
    /\ connectivity.reply = "error"
    /\ ksef_state # {} /\ ksef_invoices # {}

\* C18: GET answers 'ok', HTTP 200, with the result of runSync only for a
\* cycle of which no step failed, whose fetched invoices are all in the
\* invoice store and whose 'now' is the stored watermark; it answers
\* 'error', HTTP 500, with a message for a cycle of which a step failed.
C18_AtomicReport ==
    \A p \in Procs :
        Returned(p) =>
            /\ response[p].status = "ok" =>
                  /\ response[p].http = 200
                  /\ response[p].data = [synced_at |-> now[p],
                                         new_invoices_count |-> Len(invoices[p]),
                                         invoices |-> invoices[p]]
                  /\ ~StepFailed(p)
                  /\ \A i \in DOMAIN invoices[p] : Stored(invoices[p][i])
                  /\ ksef_state = {StoredWatermark(now[p])}
            /\ StepFailed(p) =>
                  /\ response[p].status = "error"
                  /\ response[p].http = 500
                  /\ response[p].message # << >>

\* the cycle of p is past the read of the watermark
HasRead(p) == pc[p] # "read" /\ (requests[p] # << >> \/ response[p] # NoResponse)

\* C19: a cycle that found no watermark record, or could not read it, goes
\* on with 'now' minus 24 hours as the lower bound of its query; and when
\* the query of a cycle that found no record is answered with no invoices,
\* the cycle returns 'ok' with new_invoices_count = 0 and no invoices, and
\* the stored watermark is its 'now'.
C19_DefaultWindow ==
    \A p \in Procs :
        /\ HasRead(p) =>
              /\ lastSyncDate[p] \in {now[p] - DayHours}
                                        \cup {ParseDate(w.value.timestamp) : w \in trace[p].startState}
              /\ trace[p].startState = {} => lastSyncDate[p] = now[p] - DayHours
              /\ \A i \in QueriesOf(p) :
                    requests[p][i].body.dateRange.from = toISOString(lastSyncDate[p])
        /\ (/\ Idle(p) /\ trace[p].startState = {}
            /\ trace[p].queryReply \in {"ok", "noresults"} /\ invoices[p] = << >>) =>
              /\ response[p].status = "ok"
              /\ response[p].data.new_invoices_count = 0
              /\ response[p].data.invoices = << >>
              /\ ksef_state = {StoredWatermark(now[p])}

\* C20: after a 2xx answer to the query, the invoices of the cycle are the
\* page the server sent (the headers of the window it holds, in its order,
\* repeated ones included); after a no-results answer they are the empty
\* list; and the result GET answers with carries that sequence and its
\* length.
C20_HeadersAsReturned ==
    \A p \in Procs :
        /\ trace[p].queryReply = "ok" =>
              invoices[p] = Page(Matching(serverInvoices, toISOString(lastSyncDate[p]),
                                          toISOString(now[p])),
                                 PageSize, PageOffset)
        /\ trace[p].queryReply = "noresults" => invoices[p] = << >>
        /\ (Returned(p) /\ response[p].status = "ok") =>
              /\ response[p].data.invoices = invoices[p]
              /\ response[p].data.new_invoices_count = Len(invoices[p])

\* a cycle answered 'ok' with a list that holds the same header twice
C20_Witness ==
    \E p \in Procs :
        /\ Returned(p) /\ response[p].status = "ok"
        /\ Len(response[p].data.invoices) > 1
        /\ response[p].data.invoices[1] = response[p].data.invoices[Len(response[p].data.invoices)]

Watermark(table) == ParseDate((CHOOSE r \in table : r.key = "last_sync").value.timestamp)

\* the window of the query of the cycle of p
QueryWindow(p) ==
    LET i == CHOOSE i \in QueriesOf(p) : TRUE
    IN  [from |-> ParseDate(requests[p][i].body.dateRange.from),
         to |-> ParseDate(requests[p][i].body.dateRange.to)]

\* the query of the cycle of p was answered with the whole window: the
\* no-results status, or a page shorter than the page size
FetchedInFull(p) ==
    \/ trace[p].queryReply = "noresults"
    \/ trace[p].queryReply = "ok" /\ Len(invoices[p]) < PageSize

\* the fetch of the cycle of p has completed and what it returned is stored
FetchedAndStored(p) ==
    /\ QueriesOf(p) # {}
    /\ FetchedInFull(p)
    /\ ~trace[p].saveError
    /\ pc[p] = "update" \/ (Returned(p) /\ response[p].status = "ok")

\* the cycle of p, as far as it has gone, is one of the cycles the claim is
\* about: it read a watermark of the store, no request of it failed, it
\* fetched its window in full and its writes were accepted
Conforms(p) ==
    /\ trace[p].failedAt = ""
    /\ ~trace[p].saveError /\ ~trace[p].updateError
    /\ HasRead(p) => lastSyncDate[p] >= InitialWatermark
    /\ (pc[p] \in {"save", "update"} \/ Returned(p)) => FetchedInFull(p)

\* C22: interleaved cycles never skip a window.  Two cycles interleave in any
\* order, each reading the watermark, fetching its window in full, storing
\* what it fetched and writing its 'now': at every step that writes a value w
\* to the watermark store, each instant from the initial watermark up to w
\* lies in the window of a fetch that had completed and been stored before
\* that step.
C22_InterleavingSkipsNoWindow ==
    [][(ksef_state' # ksef_state /\ \A q \in Procs : Conforms(q)) =>
          \A h \in InitialWatermark..(Watermark(ksef_state') - 1) :
              \E q \in Procs :
                  /\ FetchedAndStored(q)
                  /\ QueryWindow(q).from <= h /\ h < QueryWindow(q).to]_vars

\* both cycles read the initial watermark and fetched and stored an invoice;
\* the one that captured the later 'now' wrote it first, and the store holds
\* the older 'now' of the other
C22_Witness ==
    \E p \in Procs, q \in Procs :
        /\ now[p] < now[q]
        /\ \A r \in {p, q} :
              /\ Returned(r) /\ response[r].status = "ok" /\ Conforms(r)
              /\ FetchedAndStored(r)
              /\ QueryWindow(r).from = InitialWatermark
              /\ Len(invoices[r]) > 0
        /\ Watermark(ksef_state) = now[p]

\* C23: when the tax identifier or the authorization secret is missing from
\* the configuration, a cycle that is past its read of the watermark has
\* ended with the error 'Missing Credentials', the lower bound having been
\* derived from the read; no cycle has sent any request, the server has
\* issued no challenge and opened no session, and neither table has changed
\* since the cycle began.
C23_MissingCredentialsBeforeAnyRequest ==
    (env.KSEF_NIP = "" \/ env.KSEF_TOKEN = "") =>
        \A p \in Procs :
            /\ pc[p] \in {"idle", "read"}
            /\ requests[p] = << >>
            /\ serverAuth.issued = 0 /\ serverAuth.sessions = 0
            /\ trace[p].written = Absent
            /\ (pc[p] = "read" \/ Returned(p)) =>
                  /\ ksef_state = trace[p].startState
                  /\ ksef_invoices = trace[p].startInvoices
            /\ HasRead(p) =>
                  /\ Returned(p)
                  /\ response[p] = ErrorResponse(<<"Missing Credentials">>)
                  /\ trace[p].failedAt = "credentials"
                  /\ firstFrom.set

\* a cycle ended without the authorization secret, over a stored watermark
C23_Witness ==
    \E p \in Procs :
        /\ env.KSEF_NIP # "" /\ env.KSEF_TOKEN = ""
        /\ Returned(p) /\ response[p].status = "error"
        /\ ksef_state # {}

====
